---- MODULE Spec2Model ----
(***************************************************************************)
(* State-machine model of AsyncRedisEventBroker                            *)
(* (src/src/apscheduler/eventbrokers/async_redis.py).                      *)
(*                                                                         *)
(* One broker instance, the Redis channel it is subscribed to, a caller    *)
(* that drives start()/stop() sequentially, a publish() call that runs     *)
(* concurrently with the listener tasks, and peers that publish on the     *)
(* same channel.  Steps are split at the awaits of the coroutines.         *)
(***************************************************************************)
EXTENDS Integers, Sequences, FiniteSets, TLC

\* ------------------------------------------------------------------ bounds
\* retry_settings.stop is modelled as stop_after_attempt(MaxAttempts)
MaxAttempts == 3
\* number of start() calls explored (each allocates one PubSub handle)
MaxStarts == 2
\* number of notifications the channel accepts in one behaviour
MaxMsgs == 2

Handles == 1..MaxStarts

VARIABLES
    stopped,    \* self._stopped
    handles,    \* PubSub objects created by start(): handle -> state
    listener,   \* the _listen_messages task started with each handle
    queue,      \* notifications the transport holds for each subscription
    localbus,   \* ids handed to publish_local, in call order
    caller,     \* the coroutine that calls start() / stop()
    last,       \* the last start()/stop() call that finished
    publisher,  \* the running publish() call
    nStarts,    \* PubSub handles allocated so far
    nextId      \* id the channel gives to the next accepted notification

vars == <<stopped, handles, listener, queue, localbus, caller, last,
          publisher, nStarts, nextId>>

\* ------------------------------------------------------------- data shapes
NoMsg == [id |-> 0, kind |-> "none"]

\* "own": published by this broker; "remote": published by a peer;
\* "bad": bytes the serializer cannot decode; "nonbytes": data is not bytes
OwnKind == "own"
RemoteKinds == {"remote", "bad", "nonbytes"}

IdleTask == [pc |-> "none", attempt |-> 0, hist |-> <<>>, warnings |-> 0,
             msg |-> NoMsg, inGroup |-> FALSE, err |-> "none"]

AlivePcs == {"loop", "recv", "sleep", "process"}

Alive(h) == listener[h].pc \in AlivePcs

AnyAlive == \E h \in Handles : Alive(h)

NumAlive == Cardinality({h \in Handles : Alive(h)})

\* ------------------------------------------------------------ retry policy
\* a predicate that takes every exception for a connectivity problem
IsTransientAny(outcome) == outcome \in {"T", "F"}

\* tenacity.retry_if_exception_type(ConnectionError)
IsTransient(outcome) == outcome = "T"

\* a stop condition that allows one attempt too many
RetryStopLate(attempt) == attempt > MaxAttempts

\* a stop condition that gives up one attempt early
RetryStopEarly(attempt) == attempt + 1 >= MaxAttempts

\* retry_settings.stop, evaluated after a failed attempt
RetryStop(attempt) == attempt >= MaxAttempts

\* after_attempt: one warning per failed attempt that the predicate accepts
AfterAttempt(warnings) == warnings + 1

\* ---------------------------------------------------------------- channel
\* the channel hands an accepted notification to every open subscription
Broadcast(q, hs, m) ==
    [h \in Handles |-> IF hs[h] = "subscribed" THEN Append(q[h], m) ELSE q[h]]

\* ------------------------------------------------------------------- Init
Init ==
    /\ stopped = TRUE
    /\ handles = [h \in Handles |-> "unused"]
    /\ listener = [h \in Handles |-> IdleTask]
    /\ queue = [h \in Handles |-> <<>>]
    /\ localbus = <<>>
    /\ caller = [pc |-> "idle", h |-> 0, force |-> FALSE]
    /\ last = [op |-> "none", result |-> "none", force |-> FALSE]
    /\ publisher = [pc |-> "idle", attempt |-> 0, hist |-> <<>>,
                    warnings |-> 0, result |-> "none", err |-> "none"]
    /\ nStarts = 0
    /\ nextId = 1

\* ---------------------------------------------------- lifecycle: start()
\* a listener spawned outside the broker's task group
StartDetached(h) ==
    [pc |-> "loop", attempt |-> 0, hist |-> <<>>, warnings |-> 0,
     msg |-> NoMsg, inGroup |-> FALSE, err |-> "none"]

\* self._task_group.start_soon(self._listen_messages, pubsub)
StartSoon(h) ==
    [pc |-> "loop", attempt |-> 0, hist |-> <<>>, warnings |-> 0,
     msg |-> NoMsg, inGroup |-> TRUE, err |-> "none"]

\* the task group's cancel scope: every live child task of the group ends
\* with the cancellation error, which is no Exception, so the listener's
\* except clause does not run
CancelGroup(ls) ==
    [h \in Handles |->
        IF ls[h].pc \in AlivePcs /\ ls[h].inGroup
        THEN [IdleTask EXCEPT !.pc = "cancelled", !.inGroup = TRUE]
        ELSE ls[h]]

\* the task group's exit: waits until no child task of the group is alive
GroupDrained == \A h \in Handles : listener[h].inGroup => ~Alive(h)

\* a stop() that clears the flag
StopFlagCleared == FALSE

\* self._stopped = True
StopFlag == TRUE

\* start(), up to the await of pubsub.subscribe
StartBegin ==
    /\ caller.pc = "idle"
    /\ nStarts < MaxStarts
    /\ nStarts' = nStarts + 1
    /\ handles' = [handles EXCEPT ![nStarts + 1] = "created"]
    /\ caller' = [pc |-> "subscribing", h |-> nStarts + 1, force |-> FALSE]
    /\ UNCHANGED <<stopped, listener, queue, localbus, last, publisher, nextId>>

\* subscribe succeeded: clear the flag, launch the listener
StartSubscribed ==
    /\ caller.pc = "subscribing"
    /\ handles' = [handles EXCEPT ![caller.h] = "subscribed"]
    /\ stopped' = FALSE
    /\ listener' = [listener EXCEPT ![caller.h] = StartSoon(caller.h)]
    /\ last' = [op |-> "start", result |-> "ok", force |-> FALSE]
    /\ caller' = [pc |-> "idle", h |-> 0, force |-> FALSE]
    /\ UNCHANGED <<queue, localbus, publisher, nStarts, nextId>>

\* an except clause that re-raises without stopping
NoCleanupOnFailure == FALSE

\* except Exception: await self.stop(force=True)
CleanupOnFailure == TRUE

\* subscribe raised: stop(force=True), then re-raise; the forced stop leaves
\* no task to wait for, so the call ends in the same step
StartSubscribeFailed ==
    /\ caller.pc = "subscribing"
    /\ handles' = [handles EXCEPT ![caller.h] = "failed"]
    /\ IF CleanupOnFailure
       THEN /\ stopped' = StopFlag
            /\ listener' = CancelGroup(listener)
       ELSE UNCHANGED <<stopped, listener>>
    /\ last' = [op |-> "start", result |-> "raised", force |-> TRUE]
    /\ caller' = [pc |-> "idle", h |-> 0, force |-> FALSE]
    /\ UNCHANGED <<queue, localbus, publisher, nStarts, nextId>>

\* ----------------------------------------------------- lifecycle: stop()
\* a stop() that does not hand its force argument on
StopForceDropped(force) == FALSE

\* await super().stop(force=force)
StopForce(force) == force

\* stop(force), up to the await inside super().stop
StopBegin(force) ==
    /\ caller.pc = "idle"
    /\ stopped' = StopFlag
    /\ listener' = IF StopForce(force) THEN CancelGroup(listener) ELSE listener
    /\ caller' = [pc |-> "stopping", h |-> 0, force |-> force]
    /\ UNCHANGED <<handles, queue, localbus, last, publisher, nStarts, nextId>>

\* super().stop returns once the listener tasks have ended
StopReturn ==
    /\ caller.pc = "stopping"
    /\ GroupDrained
    /\ last' = [op |-> "stop", result |-> "ok", force |-> caller.force]
    /\ caller' = [pc |-> "idle", h |-> 0, force |-> FALSE]
    /\ UNCHANGED <<stopped, handles, listener, queue, localbus, publisher,
                   nStarts, nextId>>

\* ------------------------------------------------------- _listen_messages
\* an except clause that re-raises without closing the PubSub
CrashNoClose(hs, h) == hs

\* except Exception: log, await pubsub.close(), raise
Crash(hs, h) == [hs EXCEPT ![h] = "closed"]

\* a loop that never looks at the flag
LoopTestAlways(s) == TRUE

\* while not self._stopped
LoopTest(s) == ~s

\* a retry controller shared by the iterations, which goes on counting
CarriedAttempt(attempt) == IF attempt = 0 THEN 1 ELSE attempt

\* async for attempt in self._retry(): a new controller, first attempt
NewAttempt(attempt) == 1

\* while not self._stopped: ... async for attempt in self._retry()
\* (the retry controller and the warnings it logged belong to one
\* iteration; the steps that end an iteration drop them and keep only the
\* attempt number the controller had reached)
LoopCheck(h) ==
    /\ listener[h].pc = "loop"
    /\ listener' = [listener EXCEPT ![h] =
            IF LoopTest(stopped)
            THEN [@ EXCEPT !.pc = "recv", !.attempt = NewAttempt(@)]
            ELSE [@ EXCEPT !.pc = "returned", !.attempt = 0]]
    /\ UNCHANGED <<stopped, handles, queue, localbus, caller, last,
                   publisher, nStarts, nextId>>

\* pubsub.get_message returns a notification
ReceiveMessage(h) ==
    /\ listener[h].pc = "recv"
    /\ queue[h] # <<>>
    /\ listener' = [listener EXCEPT ![h] =
            [@ EXCEPT !.pc = "process", !.msg = Head(queue[h]),
                      !.hist = Append(@, "MSG")]]
    /\ queue' = [queue EXCEPT ![h] = Tail(@)]
    /\ UNCHANGED <<stopped, handles, localbus, caller, last, publisher,
                   nStarts, nextId>>

\* the iteration is over: back to the loop test
EndIteration(t) ==
    [t EXCEPT !.pc = "loop", !.hist = <<>>, !.warnings = 0, !.msg = NoMsg]

\* a listener that takes a poll without a message for the end of the stream
OnTimeoutExit(t) == [EndIteration(t) EXCEPT !.pc = "returned"]

\* msg is None: the if is skipped and the loop goes round
OnTimeout(t) == EndIteration(t)

\* pubsub.get_message returns None after stop_check_interval
ReceiveTimeout(h) ==
    /\ listener[h].pc = "recv"
    /\ queue[h] = <<>>
    /\ listener' = [listener EXCEPT ![h] = OnTimeout(@)]
    /\ UNCHANGED <<stopped, handles, queue, localbus, caller, last,
                   publisher, nStarts, nextId>>

\* an except clause that logs the error and lets the loop go on
Swallow(t, outcome) ==
    [t EXCEPT !.pc = "loop", !.err = outcome, !.hist = Append(@, outcome)]

\* raise: the error leaves the task
RaiseOut(t, outcome) ==
    [t EXCEPT !.pc = "raised", !.err = outcome, !.hist = Append(@, outcome),
              !.warnings = IF IsTransient(outcome)
                           THEN AfterAttempt(@) ELSE @]

\* an except clause that also marks the broker stopped
CrashFlagSet(s) == TRUE

\* the except clause does not assign self._stopped
CrashFlag(s) == s

\* pubsub.get_message raises: "T" a ConnectionError, "F" any other Exception
ReceiveError(h, outcome) ==
    /\ listener[h].pc = "recv"
    /\ IF IsTransient(outcome) /\ ~RetryStop(listener[h].attempt)
       THEN /\ listener' = [listener EXCEPT ![h] =
                    [@ EXCEPT !.pc = "sleep", !.attempt = @ + 1,
                              !.hist = Append(@, outcome),
                              !.warnings = AfterAttempt(@)]]
            /\ UNCHANGED <<handles, stopped>>
       ELSE /\ listener' = [listener EXCEPT ![h] = RaiseOut(@, outcome)]
            /\ handles' = Crash(handles, h)
            /\ stopped' = CrashFlag(stopped)
    /\ UNCHANGED <<queue, localbus, caller, last, publisher, nStarts, nextId>>

\* anyio.sleep(wait) between two attempts is over
ReceiveRetry(h) ==
    /\ listener[h].pc = "sleep"
    /\ listener' = [listener EXCEPT ![h] = [@ EXCEPT !.pc = "recv"]]
    /\ UNCHANGED <<stopped, handles, queue, localbus, caller, last,
                   publisher, nStarts, nextId>>

\* reconstitute_event: None for undecodable bytes and for a notification
\* this broker published itself, the event (its id) otherwise
ReconstituteEvent(m) ==
    IF m.kind = "remote" THEN m.id ELSE 0

\* msg and isinstance(msg["data"], bytes)
IsBytes(m) == m.kind # "nonbytes"

\* publish_local(event)
PublishLocal(bus, event) == Append(bus, event)

\* a listener that hands on whatever reconstitute_event returned
IsEventAlways(event) == TRUE

\* if event is not None
IsEvent(event) == event # 0

\* if msg and isinstance(...): event = reconstitute_event(...); publish_local
Forward(h) ==
    /\ listener[h].pc = "process"
    /\ localbus' =
            IF IsBytes(listener[h].msg)
               /\ IsEvent(ReconstituteEvent(listener[h].msg))
            THEN PublishLocal(localbus, ReconstituteEvent(listener[h].msg))
            ELSE localbus
    /\ listener' = [listener EXCEPT ![h] = EndIteration(@)]
    /\ UNCHANGED <<stopped, handles, queue, caller, last, publisher,
                   nStarts, nextId>>

ListenerStep(h) ==
    \/ LoopCheck(h)
    \/ ReceiveMessage(h)
    \/ ReceiveTimeout(h)
    \/ \E outcome \in {"T", "F"} : ReceiveError(h, outcome)
    \/ ReceiveRetry(h)
    \/ Forward(h)

\* ---------------------------------------------------------------- publish
\* publish(event): generate_notification, then the first attempt is due
PublishCall ==
    /\ publisher.pc = "idle"
    /\ publisher' = [pc |-> "attempt", attempt |-> 1, hist |-> <<>>,
                     warnings |-> 0, result |-> "none", err |-> "none"]
    /\ UNCHANGED <<stopped, handles, listener, queue, localbus, caller, last,
                   nStarts, nextId>>

\* a retry loop that goes on to the next attempt after a success
PublishAgain(p) ==
    [p EXCEPT !.attempt = @ + 1, !.hist = Append(@, "OK")]

\* the attempt succeeded: the retry loop ends and publish() returns
PublishDone(p) ==
    [p EXCEPT !.pc = "idle", !.result = "ok", !.hist = Append(@, "OK")]

\* a publish() that also delivers the event to the local subscribers
PublishBusLocal(bus, id) == Append(bus, id)

\* publish() has no call of publish_local: the local bus is left alone
PublishBus(bus, id) == bus

\* client.publish(channel, notification) is accepted
PublishAccepted ==
    /\ publisher.pc = "attempt"
    /\ nextId <= MaxMsgs
    /\ queue' = Broadcast(queue, handles, [id |-> nextId, kind |-> OwnKind])
    /\ nextId' = nextId + 1
    /\ publisher' = PublishDone(publisher)
    /\ localbus' = PublishBus(localbus, nextId)
    /\ UNCHANGED <<stopped, handles, listener, caller, last, nStarts>>

\* client.publish raises: "T" a ConnectionError, "F" any other Exception
PublishError(outcome) ==
    /\ publisher.pc = "attempt"
    /\ publisher' =
            IF IsTransient(outcome) /\ ~RetryStop(publisher.attempt)
            THEN [publisher EXCEPT !.pc = "sleep", !.attempt = @ + 1,
                                   !.hist = Append(@, outcome),
                                   !.warnings = AfterAttempt(@)]
            ELSE [publisher EXCEPT !.pc = "idle", !.result = "raised",
                                   !.err = outcome,
                                   !.hist = Append(@, outcome),
                                   !.warnings = IF IsTransient(outcome)
                                                THEN AfterAttempt(@) ELSE @]
    /\ UNCHANGED <<stopped, handles, listener, queue, localbus, caller, last,
                   nStarts, nextId>>

\* anyio.sleep(wait) between two attempts is over
PublishRetry ==
    /\ publisher.pc = "sleep"
    /\ publisher' = [publisher EXCEPT !.pc = "attempt"]
    /\ UNCHANGED <<stopped, handles, listener, queue, localbus, caller, last,
                   nStarts, nextId>>

\* ------------------------------------------------------------------ peers
\* another process publishes on the channel
RemotePublish(kind) ==
    /\ nextId <= MaxMsgs
    /\ queue' = Broadcast(queue, handles, [id |-> nextId, kind |-> kind])
    /\ nextId' = nextId + 1
    /\ UNCHANGED <<stopped, handles, listener, localbus, caller, last,
                   publisher, nStarts>>

\* ---------------------------------------------------------- specification
Next ==
    \/ StartBegin
    \/ StartSubscribed
    \/ StartSubscribeFailed
    \/ \E force \in BOOLEAN : StopBegin(force)
    \/ StopReturn
    \/ \E h \in Handles : ListenerStep(h)
    \/ PublishCall
    \/ PublishAccepted
    \/ \E outcome \in {"T", "F"} : PublishError(outcome)
    \/ PublishRetry
    \/ \E kind \in RemoteKinds : RemotePublish(kind)

Spec == Init /\ [][Next]_vars

\* The runs without cancellation: no forced stop and no failing subscribe.
\* The event loop runs every task that is ready, so a listener that holds a
\* received notification gets to forward it.
NextGraceful ==
    \/ StartBegin
    \/ StartSubscribed
    \/ StopBegin(FALSE)
    \/ StopReturn
    \/ \E h \in Handles : ListenerStep(h)
    \/ \E kind \in RemoteKinds : RemotePublish(kind)

SpecGraceful ==
    Init /\ [][NextGraceful]_vars /\ \A h \in Handles : WF_vars(Forward(h))

\* The same runs with every listener task scheduled: a receive ends (with a
\* notification, with None after stop_check_interval, or with an error), a
\* sleep between two attempts ends, and a ready task gets to run.
SpecFair ==
    Init /\ [][NextGraceful]_vars
         /\ \A h \in Handles : WF_vars(ListenerStep(h))

TypeOK ==
    /\ stopped \in BOOLEAN
    /\ \A h \in Handles :
        /\ handles[h] \in {"unused", "created", "subscribed", "failed", "closed"}
        /\ listener[h].pc \in AlivePcs \cup {"none", "returned", "raised", "cancelled"}
        /\ listener[h].attempt \in 0..MaxAttempts
        /\ Len(queue[h]) <= MaxMsgs
    /\ Len(localbus) <= MaxMsgs * MaxStarts
    /\ publisher.attempt \in 0..MaxAttempts
    /\ nStarts \in 0..MaxStarts
    /\ nextId \in 1..(MaxMsgs + 1)

\* ================================================================= claims
SomeStartSucceeded == \E h \in Handles : handles[h] \in {"subscribed", "closed"}

StopReturned == caller.pc = "idle" /\ last.op = "stop"

StoppedGracefully == StopReturned /\ ~last.force

\* C1: once stop(force=false) has returned, no listener task is alive, and
\* from then on nothing is handed to publish_local, whatever notifications
\* the subscriptions still hold.
C1_GracefulStopEndsListener ==
    /\ [](StoppedGracefully => ~AnyAlive)
    /\ [][StoppedGracefully => localbus' = localbus]_vars

\* a graceful stop has returned after a successful start, the listener ended
\* by its loop test and its subscription still holds a notification
C1_Witness ==
    /\ StoppedGracefully
    /\ \E h \in Handles : listener[h].pc = "returned" /\ queue[h] # <<>>

\* C2: at most one listener task of the broker is alive, in every state.
C2_AtMostOneListener == NumAlive <= 1

\* C3: once stop() has returned, and once a listener has ended on an error,
\* no subscription made by start() is still open.
C3_SubscriptionsReleased ==
    /\ StopReturned => \A h \in Handles : handles[h] # "subscribed"
    /\ \A h \in Handles : listener[h].pc = "raised" => handles[h] # "subscribed"

\* ------------------------------------------------------ publish and retry
AllTransient(hist) == \A i \in 1..Len(hist) : hist[i] = "T"

Count(hist, x) == Cardinality({i \in 1..Len(hist) : hist[i] = x})

PublishFinished == publisher.pc = "idle" /\ publisher.result # "none"

\* C4 as stated: a publish() whose every attempt failed with a connection
\* error ends after MaxAttempts attempts with MaxAttempts - 1 reported failures.
C4_ReportsAllButLast ==
    (PublishFinished /\ publisher.hist # <<>> /\ AllTransient(publisher.hist))
        => /\ Len(publisher.hist) = MaxAttempts
           /\ publisher.result = "raised"
           /\ publisher.warnings = MaxAttempts - 1

\* C4 amended: against a transport that always fails with a connection error
\* publish() makes exactly MaxAttempts attempts, re-raises the last connection
\* error and has then reported MaxAttempts failures, one after every failed
\* attempt, the last one included.
C4_ExhaustedPublish ==
    (publisher.hist # <<>> /\ AllTransient(publisher.hist))
        => /\ Len(publisher.hist) <= MaxAttempts
           /\ publisher.warnings = Len(publisher.hist)
           /\ IF Len(publisher.hist) = MaxAttempts
              THEN /\ PublishFinished
                   /\ publisher.result = "raised"
                   /\ publisher.err = "T"
              ELSE publisher.pc \in {"sleep", "attempt"}

\* publish() has given up after MaxAttempts connection errors
C4_Witness ==
    /\ PublishFinished
    /\ Len(publisher.hist) = MaxAttempts
    /\ AllTransient(publisher.hist)

\* C5: when the transport accepts attempt k after k-1 connection errors,
\* k <= MaxAttempts, publish() returns normally; the accepted call is the
\* only successful one and the last of the k calls.
C5_PublishSucceedsOnce ==
    Count(publisher.hist, "OK") > 0
        => /\ PublishFinished
           /\ publisher.result = "ok"
           /\ Count(publisher.hist, "OK") = 1
           /\ publisher.hist[Len(publisher.hist)] = "OK"
           /\ Len(publisher.hist) = publisher.attempt
           /\ Len(publisher.hist) <= MaxAttempts
           /\ AllTransient(SubSeq(publisher.hist, 1, Len(publisher.hist) - 1))

\* publish() returned after two connection errors and one accepted call
C5_Witness ==
    /\ PublishFinished
    /\ publisher.hist = <<"T", "T", "OK">>

FatalEndsIt(hist) ==
    /\ hist[Len(hist)] = "F"
    /\ Count(hist, "F") = 1
    /\ AllTransient(SubSeq(hist, 1, Len(hist) - 1))

\* C6: an error that is no connection error ends the retry loop at once, in
\* publish() and in the listener: it is the last attempt made, it is raised,
\* and no warning is logged for it.
C6_FatalNotRetried ==
    /\ Count(publisher.hist, "F") > 0
        => /\ FatalEndsIt(publisher.hist)
           /\ PublishFinished
           /\ publisher.result = "raised"
           /\ publisher.err = "F"
           /\ publisher.warnings = Len(publisher.hist) - 1
    /\ \A h \in Handles :
        Count(listener[h].hist, "F") > 0
            => /\ FatalEndsIt(listener[h].hist)
               /\ listener[h].pc = "raised"
               /\ listener[h].err = "F"
               /\ listener[h].warnings = Len(listener[h].hist) - 1

\* both the publisher and a listener were ended by a fatal error on their
\* first attempt, with attempts left
C6_Witness ==
    /\ publisher.hist = <<"F">>
    /\ \E h \in Handles : listener[h].hist = <<"F">>

\* -------------------------------------------------------------- lifecycle
NeverStarted == nStarts = 0

StopStep ==
    \/ caller.pc = "idle" /\ caller'.pc = "stopping"
    \/ caller.pc = "stopping" /\ caller'.pc = "idle"

\* C7: stop() on a broker that was never started changes nothing (the flag
\* stays set, there is no listener and no subscription), has nothing to
\* wait for and returns without an error.
C7_StopBeforeStartIsNoOp ==
    /\ [](NeverStarted =>
            /\ stopped
            /\ \A h \in Handles :
                listener[h].pc = "none" /\ handles[h] = "unused"
            /\ caller.pc = "stopping" => GroupDrained
            /\ last.op = "stop" => last.result = "ok")
    /\ [][(NeverStarted /\ StopStep) =>
            UNCHANGED <<stopped, handles, listener, queue, localbus>>]_vars

\* stop() has returned on a broker no start() was ever called on
C7_Witness == NeverStarted /\ StopReturned

\* the last call was a start() whose subscribe failed, and it is over
SubscribeFailed ==
    /\ caller.pc = "idle"
    /\ last.op = "start"
    /\ nStarts > 0
    /\ handles[nStarts] = "failed"

\* C8: a start() whose subscribe failed raises, and when it is over the stop
\* flag is set, no listener task is alive (none was launched for this call,
\* and the forced stop ended the earlier ones) and the PubSub of this call
\* holds no subscription.
C8_FailedStartLeavesStopped ==
    \A h \in Handles :
        /\ (SubscribeFailed /\ h = nStarts)
            => /\ last.result = "raised"
               /\ stopped
               /\ ~AnyAlive
               /\ listener[h].pc = "none"
        /\ handles[h] = "failed" => listener[h].pc = "none" /\ queue[h] = <<>>

\* a start() failed on a broker whose earlier start() had launched a listener
C8_Witness ==
    /\ SubscribeFailed
    /\ \E h \in Handles : listener[h].pc = "cancelled"

\* ---------------------------------------------------------------- listener
Delivered(id) == \E i \in 1..Len(localbus) : localbus[i] = id

Forwardable(m) == IsBytes(m) /\ ReconstituteEvent(m) # 0

\* two connection errors, then a notification on the third receive
RecoveredReceive(h) == listener[h].hist = <<"T", "T", "MSG">>

\* C9: a listener whose first two receive calls of an iteration failed with
\* connection errors is still alive, and when the third returns a
\* notification of a peer it is still alive and the notification reaches the
\* local bus.
C9_ListenerSurvivesTransientErrors ==
    /\ [](\A h \in Handles :
            (listener[h].hist = <<"T", "T">> \/ RecoveredReceive(h))
                => Alive(h))
    /\ \A h \in Handles : \A id \in 1..MaxMsgs :
        (RecoveredReceive(h) /\ listener[h].msg.id = id
            /\ Forwardable(listener[h].msg)) ~> Delivered(id)

\* the third receive of an iteration returned a peer's notification
C9_Witness ==
    \E h \in Handles : RecoveredReceive(h) /\ Forwardable(listener[h].msg)

Exhausted(hist) == Len(hist) = MaxAttempts /\ AllTransient(hist)

FailedReceive(hist) ==
    hist # <<>> /\ (hist[Len(hist)] = "F" \/ Exhausted(hist))

\* C10: a receive that fails with an error that is no connection error, or
\* with the connection error that exhausts the retry policy, ends the
\* listener: the task has raised that error, and its subscription is closed.
C10_FatalReceiveClosesAndRaises ==
    \A h \in Handles :
        /\ FailedReceive(listener[h].hist)
            => /\ listener[h].pc = "raised"
               /\ listener[h].err = listener[h].hist[Len(listener[h].hist)]
               /\ handles[h] = "closed"
        /\ listener[h].pc = "raised"
            => FailedReceive(listener[h].hist) /\ handles[h] = "closed"
        /\ handles[h] = "closed" => listener[h].pc = "raised"

\* one listener ended on an exhausted retry policy
C10_Witness ==
    \E h \in Handles :
        listener[h].pc = "raised" /\ Exhausted(listener[h].hist)

\* ------------------------------------------------------- bridge to the bus
\* the listener of h ends an iteration by the forwarding step
ForwardStep(h) == listener[h].pc = "process" /\ listener'[h].pc = "loop"

\* C11: a notification of a peer reaches the local bus of the broker once,
\* not twice, and the echo of a notification the broker published itself
\* causes no delivery on its own bus.
C11_EachEventOnce ==
    /\ [](\A id \in 1..MaxMsgs : Count(localbus, id) <= 1)
    /\ [][\A h \in Handles :
            (ForwardStep(h) /\ listener[h].msg.kind = OwnKind)
                => localbus' = localbus]_vars

\* C12: the notifications reach the local bus in the order in which the
\* channel accepted them (ids grow in that order): no notification is handed
\* to publish_local after a later one.
C12_BusInTransportOrder ==
    \A i, j \in 1..Len(localbus) : i < j => localbus[i] <= localbus[j]

\* the listener of h holds a notification whose bytes do not decode
HoldsMalformed(h) ==
    listener[h].pc = "process" /\ listener[h].msg.kind = "bad"

\* C13: a notification that does not decode is dropped and is not fatal: the
\* step that handles it delivers nothing, leaves the subscription open and
\* what it holds untouched, and takes the listener back to the loop test
\* (only a forced stop ends the task at that point).
C13_MalformedDropped ==
    /\ [](\A h \in Handles : Alive(h) => handles[h] = "subscribed")
    /\ [][\A h \in Handles :
            (HoldsMalformed(h) /\ listener'[h] # listener[h])
                => \/ listener'[h].pc = "cancelled"
                   \/ /\ listener'[h].pc = "loop"
                      /\ localbus' = localbus
                      /\ handles' = handles
                      /\ queue' = queue
                      /\ stopped' = stopped]_vars

\* a listener holds a malformed notification while a well-formed one of a
\* peer waits on its subscription
C13_Witness ==
    \E h \in Handles :
        /\ HoldsMalformed(h)
        /\ queue[h] # <<>>
        /\ Head(queue[h]).kind = "remote"

\* a stop(force=True) is under way or was the last call to return
ForcedStopPending == caller.pc = "stopping" /\ caller.force

ForcedStopReturned == StopReturned /\ last.force

\* C14: stop(force=True) cancels the listener at once, wherever it is (in a
\* receive, between two attempts, holding a notification): from the stop on
\* and when it has returned no listener is alive, a cancelled listener never
\* moves again, and the local bus gets nothing while no listener is alive.
C14_ForcedStopCancels ==
    /\ []((ForcedStopPending \/ ForcedStopReturned) => ~AnyAlive)
    /\ [][\A h \in Handles :
            listener[h].pc = "cancelled" => listener'[h] = listener[h]]_vars
    /\ [][~AnyAlive => localbus' = localbus]_vars

\* a forced stop has returned and left a notification on the subscription
\* of the listener it cancelled
C14_Witness ==
    /\ ForcedStopReturned
    /\ \E h \in Handles : listener[h].pc = "cancelled" /\ queue[h] # <<>>

\* C15: a step of publish(), successful or failed, delivers nothing to the
\* local bus and leaves the stop flag, the listener tasks, the subscriptions
\* and the lifecycle calls as they are.
C15_PublishOnlyRelays ==
    [][publisher' # publisher =>
            UNCHANGED <<localbus, stopped, listener, handles, caller, last>>]_vars

\* publish() has succeeded while a listener was running and the local bus is
\* still empty
C15_Witness ==
    /\ publisher.result = "ok"
    /\ ~stopped
    /\ localbus = <<>>
    /\ \E h \in Handles : Alive(h) /\ handles[h] = "subscribed"

\* C16: a poll that ends without a notification is no error: the listener
\* leaves a receive only with a notification, into a retry, through the crash
\* path, by cancellation, or (only when nothing waits on the subscription)
\* back to the loop test with the bus, the subscription and the flag
\* untouched; it returns only from the loop test with the flag set, and from
\* the loop test with the flag clear it starts the next poll.
C16_TimeoutIsNoError ==
    [][\A h \in Handles :
        /\ (listener[h].pc = "recv"
            /\ listener'[h].pc \notin {"recv", "process", "sleep", "raised",
                                       "cancelled"})
                => /\ listener'[h].pc = "loop"
                   /\ queue[h] = <<>>
                   /\ UNCHANGED <<localbus, handles, stopped, queue>>
        /\ (listener[h].pc # "returned" /\ listener'[h].pc = "returned")
                => listener[h].pc = "loop" /\ stopped
        /\ (listener[h].pc = "loop" /\ ~stopped /\ listener'[h] # listener[h])
                => \/ listener'[h].pc = "cancelled"
                   \/ listener'[h].pc = "recv" /\ listener'[h].attempt = 1]_vars

\* nothing was ever published on the channel and a listener is back at the
\* loop test after a poll that had no failed attempt, with the flag clear
C16_Witness ==
    /\ nextId = 1
    /\ ~stopped
    /\ \E h \in Handles :
        /\ listener[h].pc = "loop"
        /\ listener[h].attempt = 1
        /\ handles[h] = "subscribed"

\* C17: a listener that a fatal error has left is not alive and never moves
\* again, and a listener task comes alive only in the step in which a start()
\* call launches it on the subscription that call created.
C17_NoAutoRestart ==
    /\ [](\A h \in Handles : listener[h].err # "none" => listener[h].pc = "raised")
    /\ [][\A h \in Handles :
            /\ listener[h].pc = "raised" => listener'[h] = listener[h]
            /\ (~Alive(h) /\ Alive(h)')
                    => /\ caller.pc = "subscribing" /\ caller.h = h
                       /\ listener[h].pc = "none"
                       /\ last'.op = "start"]_vars

\* a listener has ended on an error that is not retried, no listener is
\* alive and no lifecycle call is under way
C17_Witness ==
    /\ caller.pc = "idle"
    /\ ~AnyAlive
    /\ \E h \in Handles : listener[h].pc = "raised" /\ listener[h].err = "F"

\* ------------------------------------------------- stop during the retries
\* stop(force=false) has set the flag and waits for the listeners
GracefulStopPending == caller.pc = "stopping" /\ ~caller.force /\ stopped

InRetryLoop(h) == listener[h].pc \in {"recv", "sleep"}

\* C18: once stop(force=false) has set the flag every listener ends, also
\* when its receives keep failing. The flag is read by the loop test only: a
\* listener inside the retry loop goes on to the next attempt, to the
\* notification or the end of the iteration, or out through the crash path,
\* never straight to its return; at the loop test with the flag set it
\* returns; and a listener that raises while the flag is set has its
\* subscription closed and, when the error is a connection error, has used
\* up the MaxAttempts attempts.
C18_GracefulStopTerminates ==
    /\ GracefulStopPending ~> ~AnyAlive
    /\ [][\A h \in Handles :
            /\ (InRetryLoop(h) /\ listener'[h] # listener[h])
                    => listener'[h].pc \in {"recv", "sleep", "process", "loop",
                                            "raised"}
            /\ (listener[h].pc = "loop" /\ stopped /\ listener'[h] # listener[h])
                    => listener'[h].pc = "returned"
            /\ (stopped /\ Alive(h) /\ listener'[h].pc = "raised")
                    => /\ InRetryLoop(h)
                       /\ handles'[h] = "closed"
                       /\ listener'[h].err \in {"T", "F"}
                       /\ listener'[h].err = "T" => Exhausted(listener'[h].hist)]_vars

\* the flag is set, stop(force=false) waits, and a listener is inside the
\* retry loop at its last attempt after MaxAttempts - 1 connection errors
C18_Witness ==
    /\ GracefulStopPending
    /\ \E h \in Handles :
        /\ listener[h].pc = "recv"
        /\ listener[h].attempt = MaxAttempts
        /\ AllTransient(listener[h].hist)
        /\ Len(listener[h].hist) = MaxAttempts - 1

\* C19: the retry budget belongs to one iteration. Every poll the loop test
\* starts is attempt 1 of a new controller with no failure behind it, the
\* attempt number inside the retry loop counts the connection errors of this
\* iteration only, and a listener that ended on a connection error had
\* MaxAttempts of them in that one iteration; an iteration that ends with a
\* notification or without one leaves the listener alive, however many
\* attempts it took.
C19_RetryBudgetPerIteration ==
    /\ [](\A h \in Handles :
            /\ InRetryLoop(h)
                => /\ AllTransient(listener[h].hist)
                   /\ listener[h].attempt = Len(listener[h].hist) + 1
            /\ (listener[h].pc = "raised" /\ listener[h].err = "T")
                => Exhausted(listener[h].hist))
    /\ [][\A h \in Handles :
            /\ (listener[h].pc = "loop" /\ listener'[h].pc = "recv")
                => /\ listener'[h].attempt = 1
                   /\ listener'[h].hist = <<>>
                   /\ listener'[h].warnings = 0
            /\ (listener[h].pc \in {"recv", "process"}
                /\ listener'[h].pc = "loop")
                => /\ listener'[h].attempt = listener[h].attempt
                   /\ handles'[h] = "subscribed"]_vars

\* a listener is back at the loop test, flag clear, after an iteration that
\* needed all MaxAttempts attempts, and has delivered a notification
C19_Witness ==
    /\ ~stopped
    /\ localbus # <<>>
    /\ \E h \in Handles :
        /\ listener[h].pc = "loop"
        /\ listener[h].attempt = MaxAttempts
        /\ handles[h] = "subscribed"

\* the step is the end of a start() call whose subscribe failed
FailedStartStep == caller.pc = "subscribing" /\ last'.result = "raised"

\* C20: the crash path leaves the lifecycle flag alone: the step in which a
\* listener raises does not change it, it goes from stopped to running only
\* in the step that ends a successful start(), and from running to stopped
\* only in a stop() call (the caller's, or the one start() makes when its
\* subscribe failed).
C20_CrashLeavesFlag ==
    [][/\ \A h \in Handles :
            (Alive(h) /\ listener'[h].pc = "raised") => stopped' = stopped
       /\ (stopped /\ ~stopped')
            => /\ caller.pc = "subscribing"
               /\ last'.op = "start" /\ last'.result = "ok"
       /\ (~stopped /\ stopped') => (StopStep \/ FailedStartStep)]_vars

\* the last call was a successful start(), its listener has ended through
\* the crash path, no listener is alive and the flag still reads running
C20_Witness ==
    /\ ~stopped
    /\ ~AnyAlive
    /\ caller.pc = "idle"
    /\ last.op = "start" /\ last.result = "ok"
    /\ \E h \in Handles : listener[h].pc = "raised" /\ handles[h] = "closed"

====
